---- MODULE Spec2Model ----
(***************************************************************************)
(* Model of the visitor tracker: the sliding-window rate limiter           *)
(* (tracker/utils.py), the file-backed visit and event collections and     *)
(* the operations of VisitorService (tracker/services.py), and the         *)
(* ingestion routes (tracker/routes.py, app.py).                           *)
(*                                                                         *)
(* Python values are records tagged by "t"; a string is represented by a   *)
(* name and its length, a timestamp string by its format and the instant   *)
(* it denotes; a client address by the parts that split('.') yields.       *)
(* A file is a record tagged by "kind".                                    *)
(***************************************************************************)
EXTENDS Integers, Sequences, FiniteSets, TLC

VARIABLES
    now,         \* the wall clock: time.time() and datetime.utcnow(), in ticks
    config,      \* the tracking configuration handed to VisitorService
    requests,    \* RateLimiter.requests: identifier -> deque of timestamps
    admitted,    \* history: identifier -> times of the is_allowed calls that returned True
    visitsFile,  \* data/visits.json
    eventsFile,  \* data/events.json
    logFile,     \* the access log (config log_file)
    logged,      \* history: the entries log_http_request was called to append, in call order
    last,        \* the operation completed by the last step, with its inputs and result
    built,       \* history: the visit_data returned by the record_visit calls, in call order
    issued,      \* history: the event_id returned by the record_event calls, in call order
    pc,          \* concurrent callers: the position of each caller inside its call
    local        \* concurrent callers: the local variables of each caller

vars == <<now, config, requests, admitted, visitsFile, eventsFile, logFile, logged,
          last, built, issued, pc, local>>

----------------------------------------------------------------------------
(* Bounds of the model *)

\* RateLimiter(max_requests, time_window): the constructor's parameters
max_requests == 2
time_window == 3
\* the clock stops advancing here
MaxNow == 4
\* the clock stops advancing here while the service operations are exercised
MaxClock == 2
\* ticks in one day, the unit of timedelta(days=...)
TicksPerDay == 2
\* largest retention_days a caller passes
MaxDays == 1
\* config data_retention_days, in days
DataRetentionDays == 1
\* a collection is not appended to beyond this length
MaxRecords == 2
\* config max_log_lines
max_log_lines == 3
\* number of concurrent callers
NumProcs == 2
\* log_http_request is not called more often than this
MaxLogged == 5
\* the visits collection is not appended to beyond this length while the statistics
\* are exercised
MaxVisits == 3

\* validate_visitor_data: the longest page URL accepted
MaxUrlLen == 2048

----------------------------------------------------------------------------
(* Python values *)

None == [t |-> "null"]
Str(name, n) == [t |-> "str", s |-> name, len |-> n]
Num(n) == [t |-> "num", n |-> n]
EmptyStr == Str("", 0)
\* a dict with the given number of keys
Dict(n) == [t |-> "dict", size |-> n]
EmptyDict == Dict(0)
\* the value of a key a JSON object does not have
Missing == [t |-> "missing"]
\* data.get(key): None for a key that is not there
Get(v) == IF v = Missing THEN None ELSE v
\* data.get(key, default)
GetOr(v, default) == IF v = Missing THEN default ELSE v

\* `not v` is false
Truthy(v) ==
    CASE v.t = "null" -> FALSE
      [] v.t = "str" -> v.len > 0
      [] v.t = "num" -> v.n # 0
      [] v.t = "dict" -> v.size > 0
      [] OTHER -> TRUE

\* v or d
OrElse(v, d) == IF Truthy(v) THEN v ELSE d

\* datetime.isoformat() of a naive instant, e.g. "2024-01-01T00:00:00"
IsoStr(at) == [t |-> "str", s |-> "iso", len |-> 19, at |-> at]
\* an ISO-8601 string with the UTC designator, e.g. "2024-01-01T00:00:00Z"
IsoZStr(at) == [t |-> "str", s |-> "isoZ", len |-> 20, at |-> at]
\* a string that is no ISO-8601 timestamp
BadTs == Str("yesterday", 9)

\* datetime.fromisoformat(timestamp.replace('Z', '+00:00'))
ParseTimestamp(v) ==
    IF v.t = "str" /\ v.s = "iso" THEN [ok |-> TRUE, aware |-> FALSE, at |-> v.at]
    ELSE IF v.t = "str" /\ v.s = "isoZ" THEN [ok |-> TRUE, aware |-> TRUE, at |-> v.at]
    ELSE [ok |-> FALSE, aware |-> FALSE, at |-> 0]

----------------------------------------------------------------------------
(* RateLimiter *)

\* client addresses, as the parts between the dots
Ipv4Addr == <<"203", "0", "113", "42">>
OtherAddr == <<"fe80::1">>
Identifiers == {Ipv4Addr, OtherAddr}

RECURSIVE PruneWindowStrict(_, _)
PruneWindowStrict(dq, t) ==
    IF dq # <<>> /\ Head(dq) < t - time_window
    THEN PruneWindowStrict(Tail(dq), t)
    ELSE dq

RECURSIVE PruneWindow(_, _)
\* the while loop of is_allowed: popleft while the head is <= now - time_window
PruneWindow(dq, t) ==
    IF dq # <<>> /\ Head(dq) <= t - time_window
    THEN PruneWindow(Tail(dq), t)
    ELSE dq

AdmitsOneMore(dq) == Len(dq) <= max_requests
\* len(self.requests[identifier]) < self.max_requests
Admits(dq) == Len(dq) < max_requests

IsAllowedRecordingDenials(reqs, identifier, t) ==
    LET dq0 == IF identifier \in DOMAIN reqs THEN reqs[identifier] ELSE <<>>
        dq1 == PruneWindow(dq0, t)
    IN [requests |-> [k \in DOMAIN reqs \cup {identifier} |->
                        IF k = identifier THEN Append(dq1, t) ELSE reqs[k]],
        allowed |-> Admits(dq1)]
\* RateLimiter.is_allowed(identifier) at time t: the new requests map and the result
is_allowed(reqs, identifier, t) ==
    LET dq0 == IF identifier \in DOMAIN reqs THEN reqs[identifier] ELSE <<>>
        dq1 == PruneWindow(dq0, t)
        ok  == Admits(dq1)
        dq2 == IF ok THEN Append(dq1, t) ELSE dq1
    IN [requests |-> [k \in DOMAIN reqs \cup {identifier} |->
                        IF k = identifier THEN dq2 ELSE reqs[k]],
        allowed |-> ok]

\* the history of admitted calls after a call by identifier at time t
Admit(adm, identifier, t, ok) ==
    IF ok THEN [adm EXCEPT ![identifier] = Append(@, t)] ELSE adm

----------------------------------------------------------------------------
(* Files and the JSON collections *)

\* no such file
AbsentFile == [kind |-> "absent"]
\* a file whose text is not a JSON document (json.JSONDecodeError)
GarbledFile == [kind |-> "garbled"]
\* a file whose bytes are not UTF-8 text (UnicodeDecodeError, a ValueError)
BadUtf8File == [kind |-> "badutf8"]
\* a file holding the JSON document of a list of records
JsonFile(data) == [kind |-> "json", data |-> data]

\* os.path.exists(filepath)
Exists(file) == file.kind # "absent"

Ok(data) == [outcome |-> "ok", data |-> data, error |-> ""]
Raised(error) == [outcome |-> "raised", data |-> <<>>, error |-> error]

\* read_json_file: [] for an absent file and on json.JSONDecodeError or IOError;
\* any other exception of open/json.load propagates
read_json_file(file) ==
    CASE file.kind = "absent"  -> Ok(<<>>)
      [] file.kind = "garbled" -> Ok(<<>>)
      [] file.kind = "badutf8" -> Raised("UnicodeDecodeError")
      [] file.kind = "json"    -> Ok(file.data)

\* write_json_file: the file becomes the JSON document of data
write_json_file(data) == JsonFile(data)

\* the records of a collection as a caller sees them, [] when the read raises
Load(file) == read_json_file(file).data

----------------------------------------------------------------------------
(* Building records *)

\* generate_visitor_id: the first 16 hex digits of md5(f"{ip_address}-{user_agent}")
generate_visitor_id(ip_address, user_agent) ==
    [md5_16 |-> <<ip_address, "-", user_agent>>]

\* anonymize_ip on the parts of the address
anonymize_ip(ip_address) ==
    IF ip_address = <<>> THEN <<>>
    ELSE IF Len(ip_address) = 4
         THEN <<ip_address[1], ip_address[2], "xxx", "xxx">>
         ELSE ip_address

\* get_device_info: the user-agent parser, a function of the user agent
get_device_info(user_agent) == [parsed_from |-> user_agent]

VisitDataIdOfStoredIp(cfg, a, t) ==
    LET ip == IF cfg.anonymize_ip THEN anonymize_ip(a.ip_address) ELSE a.ip_address
    IN [visit_id |-> generate_visitor_id(ip, a.user_agent),
        ip_address |-> ip,
        user_agent |-> a.user_agent,
        page_url |-> a.page_url,
        referrer |-> OrElse(a.referrer, EmptyStr),
        screen_resolution |-> OrElse(a.screen_resolution, EmptyStr),
        language |-> OrElse(a.language, EmptyStr),
        timestamp |-> OrElse(a.timestamp, IsoStr(t)),
        device |-> get_device_info(a.user_agent),
        session_id |-> generate_visitor_id(ip, a.user_agent)]
\* the visit_data dict of record_visit (services.py 25-41) at time t; a is the record
\* of the call's arguments
VisitData(cfg, a, t) ==
    [visit_id |-> generate_visitor_id(a.ip_address, a.user_agent),
     ip_address |-> IF cfg.anonymize_ip THEN anonymize_ip(a.ip_address)
                    ELSE a.ip_address,
     user_agent |-> a.user_agent,
     page_url |-> a.page_url,
     referrer |-> OrElse(a.referrer, EmptyStr),
     screen_resolution |-> OrElse(a.screen_resolution, EmptyStr),
     language |-> OrElse(a.language, EmptyStr),
     timestamp |-> OrElse(a.timestamp, IsoStr(t)),
     device |-> get_device_info(a.user_agent),
     session_id |-> generate_visitor_id(a.ip_address, a.user_agent)]

AppendRecordFirst(data, rec) == <<rec>> \o data
\* visits.append(visit_data) / events.append(event)
AppendRecord(data, rec) == Append(data, rec)

\* record_visit: the new visits file, the visit_data built and the outcome
record_visit(cfg, file, a, t) ==
    LET visit_data == VisitData(cfg, a, t)
        rd == read_json_file(file)
    IN IF rd.outcome = "raised"
       THEN [outcome |-> "raised", error |-> rd.error, file |-> file,
             visit_data |-> visit_data]
       ELSE [outcome |-> "ok", error |-> "",
             file |-> write_json_file(AppendRecord(rd.data, visit_data)),
             visit_data |-> visit_data]

EventIdOffByOne(n) == n
\* len(read_json_file(self.events_file)) + 1
EventId(n) == n + 1

\* the event dict of record_event (services.py 50-57); size is the length read at line 51
\* a is the record of the call's arguments
EventData(size, a, t) ==
    [event_id |-> EventId(size),
     visit_id |-> a.visit_id,
     event_type |-> a.event_type,
     event_data |-> OrElse(a.event_data, EmptyDict),
     element_selector |-> OrElse(a.element_selector, EmptyStr),
     timestamp |-> OrElse(a.timestamp, IsoStr(t))]

\* record_event: the new events file, the event_id returned and the outcome
record_event(file, a, t) ==
    LET sz == read_json_file(file)
        event == EventData(Len(sz.data), a, t)
        rd == read_json_file(file)
    IN IF sz.outcome = "raised" \/ rd.outcome = "raised"
       THEN [outcome |-> "raised", error |-> sz.error, file |-> file, event_id |-> 0]
       ELSE [outcome |-> "ok", error |-> "",
             file |-> write_json_file(AppendRecord(rd.data, event)),
             event_id |-> event.event_id]

----------------------------------------------------------------------------
(* Retention *)

\* services.py line 3 imports the class datetime.datetime as `datetime`; line 293
\* looks up `datetime.timedelta` on that class, which has no such attribute
DatetimeClassHasTimedelta == FALSE

\* now - timedelta(days=retention_days)
CutoffDate(t, days) == t - days * TicksPerDay

\* the loop of cleanup_data (services.py 296-306) over the records read: a record is
\* kept when its timestamp is truthy and either parses to an instant >= cutoff or
\* raises ValueError; comparing an offset-aware instant with the naive cutoff raises
\* TypeError, which is not caught
CleanedData(data, cutoff) ==
    IF \E i \in DOMAIN data :
          /\ Truthy(data[i].timestamp)
          /\ ParseTimestamp(data[i].timestamp).ok
          /\ ParseTimestamp(data[i].timestamp).aware
    THEN Raised("TypeError")
    ELSE LET Keep(item) ==
                 /\ Truthy(item.timestamp)
                 /\ \/ ~ParseTimestamp(item.timestamp).ok
                    \/ ParseTimestamp(item.timestamp).at >= cutoff
         IN Ok(SelectSeq(data, Keep))

\* one iteration of the loop of cleanup_data (services.py 291-308)
CleanupFile(file, days, t) ==
    IF ~Exists(file) THEN [outcome |-> "ok", error |-> "", file |-> file]
    ELSE IF ~DatetimeClassHasTimedelta
         THEN [outcome |-> "raised", error |-> "AttributeError", file |-> file]
    ELSE LET rd == read_json_file(file)
             cl == CleanedData(rd.data, CutoffDate(t, days))
         IN IF rd.outcome = "raised"
            THEN [outcome |-> "raised", error |-> rd.error, file |-> file]
            ELSE IF cl.outcome = "raised"
            THEN [outcome |-> "raised", error |-> cl.error, file |-> file]
            ELSE [outcome |-> "ok", error |-> "", file |-> write_json_file(cl.data)]

\* cleanup_data(days): visits first, then events; days = None takes the configured
\* retention
cleanup_data(cfg, vfile, efile, arg, t) ==
    LET days == IF arg.given THEN arg.days ELSE cfg.data_retention_days
        r1 == CleanupFile(vfile, days, t)
        r2 == CleanupFile(efile, days, t)
    IN IF r1.outcome = "raised"
       THEN [outcome |-> "raised", error |-> r1.error, visits |-> vfile, events |-> efile]
       ELSE [outcome |-> r2.outcome, error |-> r2.error, visits |-> r1.file,
             events |-> r2.file]

----------------------------------------------------------------------------
(* Reading the collections *)

\* seq[:n] of Python for n >= 0
Take(seq, n) == SubSeq(seq, 1, IF n < Len(seq) THEN n ELSE Len(seq))

\* datetime.fromisoformat(s) as get_visitor_stats calls it, without the 'Z'
\* replacement (Python 3.11 accepts the UTC designator); a value that is no string
\* raises TypeError, a string that is no ISO-8601 timestamp ValueError
FromIso(v) ==
    IF v.t # "str" THEN [ok |-> FALSE, error |-> "TypeError", aware |-> FALSE, at |-> 0]
    ELSE IF v.s = "iso" THEN [ok |-> TRUE, error |-> "", aware |-> FALSE, at |-> v.at]
    ELSE IF v.s = "isoZ" THEN [ok |-> TRUE, error |-> "", aware |-> TRUE, at |-> v.at]
    ELSE [ok |-> FALSE, error |-> "ValueError", aware |-> FALSE, at |-> 0]

\* the first index of the list comprehension of line 72 or 79 at which
\* fromisoformat(v['timestamp']) or the comparison raises, 0 when none does
FirstRaising(visits, date) ==
    LET bad == {i \in DOMAIN visits :
                   \/ ~FromIso(visits[i].timestamp).ok
                   \/ FromIso(visits[i].timestamp).aware # FromIso(date).aware}
    IN IF bad = {} THEN 0 ELSE CHOOSE i \in bad : \A j \in bad : i <= j

\* one of the two filters of get_visitor_stats (services.py 69-74 with lower, 76-81
\* without): nothing is filtered when the date is falsy, and `except ValueError: pass`
\* leaves visits as they were when the date or a stored timestamp does not parse;
\* the TypeError of an aware/naive comparison or of a timestamp that is no string
\* is not caught
FilterByDate(visits, date, lower) ==
    IF ~Truthy(date) \/ ~FromIso(date).ok THEN Ok(visits)
    ELSE LET i == FirstRaising(visits, date)
             Keep(v) == IF lower THEN FromIso(v.timestamp).at >= FromIso(date).at
                        ELSE FromIso(v.timestamp).at <= FromIso(date).at
         IN IF i = 0 THEN Ok(SelectSeq(visits, Keep))
            ELSE IF ~FromIso(visits[i].timestamp).ok
                    /\ FromIso(visits[i].timestamp).error = "ValueError"
                 THEN Ok(visits)
            ELSE Raised("TypeError")

\* v['timestamp'][:10]: the date of an ISO-8601 timestamp, the first ten characters
\* of any other string
First10(v) ==
    IF v.s \in {"iso", "isoZ"}
    THEN [kind |-> "date", day |-> v.at \div TicksPerDay, text |-> ""]
    ELSE [kind |-> "text", day |-> 0, text |-> v.s]

\* the order of str on these keys: a date (digits) sorts before a text (letters)
DateLeq(a, b) ==
    IF a.kind = "date" /\ b.kind = "date" THEN a.day <= b.day
    ELSE IF a.kind = "date" THEN TRUE
    ELSE IF b.kind = "date" THEN FALSE
    ELSE a.text = b.text

RECURSIVE DailyCounts(_, _)
\* the loop of _calculate_timeline (services.py 200-203) over the defaultdict daily
DailyCounts(visits, daily) ==
    IF visits = <<>> THEN daily
    ELSE LET v == Head(visits)
             date == First10(v.timestamp)
             old == IF date \in DOMAIN daily THEN daily[date]
                    ELSE [pageviews |-> 0, visitors |-> {}]
             new == [pageviews |-> old.pageviews + 1,
                     visitors |-> old.visitors \cup {v.visit_id}]
         IN DailyCounts(Tail(visits),
                        [d \in DOMAIN daily \cup {date} |->
                            IF d = date THEN new ELSE daily[d]])

RECURSIVE DescendingDates(_)
DescendingDates(keys) ==
    IF keys = {} THEN <<>>
    ELSE LET first == CHOOSE d \in keys : \A e \in keys : DateLeq(e, d)
         IN <<first>> \o DescendingDates(keys \ {first})

RECURSIVE SortedDates(_)
\* sorted(daily.keys())
SortedDates(keys) ==
    IF keys = {} THEN <<>>
    ELSE LET first == CHOOSE d \in keys : \A e \in keys : DateLeq(d, e)
         IN <<first>> \o SortedDates(keys \ {first})

\* _calculate_timeline(visits)
calculate_timeline(visits) ==
    LET daily == DailyCounts(visits, <<>>)
        dates == SortedDates(DOMAIN daily)
    IN [i \in DOMAIN dates |->
          [date |-> dates[i], pageviews |-> daily[dates[i]].pageviews,
           visitors |-> Cardinality(daily[dates[i]].visitors)]]

\* the size of the top lists: top_pages (services.py 117, 130), by_page (129),
\* by_source (169), top_sources (170)
TopPagesLimit == 10
ByPageLimit == 50
BySourceLimit == 20
TopSourcesLimit == 10

RECURSIVE CountKeys(_, _)
\* the counting loops over a defaultdict(int) (services.py 121-123, 153-165,
\* 227-229): items() of the dict, which keeps the keys in the order of their first
\* occurrence
CountKeys(keys, items) ==
    IF keys = <<>> THEN items
    ELSE LET k == Head(keys)
             hit == {i \in DOMAIN items : items[i].key = k}
         IN CountKeys(Tail(keys),
                      IF hit = {} THEN Append(items, [key |-> k, count |-> 1])
                      ELSE [i \in DOMAIN items |->
                              IF i \in hit THEN [key |-> k, count |-> items[i].count + 1]
                              ELSE items[i]])

InsertBeforeTies(sorted, item) ==
    LET n == Cardinality({i \in DOMAIN sorted : sorted[i].count > item.count})
    IN SubSeq(sorted, 1, n) \o <<item>> \o SubSeq(sorted, n + 1, Len(sorted))
\* the place of an item in the stable descending sort: after every item already
\* placed whose count is not smaller
InsertDesc(sorted, item) ==
    LET n == Cardinality({i \in DOMAIN sorted : sorted[i].count >= item.count})
    IN SubSeq(sorted, 1, n) \o <<item>> \o SubSeq(sorted, n + 1, Len(sorted))

RECURSIVE SortDesc(_, _)
\* sorted(d.items(), key=lambda x: x[1], reverse=True): stable, so items of equal
\* count keep the order of items
SortDesc(items, sorted) ==
    IF items = <<>> THEN sorted
    ELSE SortDesc(Tail(items), InsertDesc(sorted, Head(items)))

\* the page_url of each visit, in collection order
PageUrls(visits) == [i \in DOMAIN visits |-> visits[i].page_url]

\* a referrer that is a URL with a host
Url(host, n) == [t |-> "str", s |-> "url", len |-> n, host |-> host]

\* urlparse(referrer).netloc: the host of a URL, '' for a string with no '//'
Netloc(v) == IF v.t = "str" /\ v.s = "url" THEN v.host ELSE ""

\* the source a visit counts for (services.py 155-165): the host of its referrer,
\* 'Direct' when the referrer is empty or has no host
SourceOf(v) ==
    LET referrer == OrElse(v.referrer, Str("Direct", 6))
    IN IF Netloc(referrer) # "" THEN Netloc(referrer) ELSE "Direct"

Sources(visits) == [i \in DOMAIN visits |-> SourceOf(visits[i])]

\* _get_top_pages(visits, limit)
get_top_pages(visits, limit) ==
    LET sorted_pages == SortDesc(CountKeys(PageUrls(visits), <<>>), <<>>)
        top == Take(sorted_pages, limit)
    IN [i \in DOMAIN top |-> [url |-> top[i].key, views |-> top[i].count]]

\* _calculate_pageviews(visits); by_page is the dict in the order of its items
calculate_pageviews(visits) ==
    LET sorted_pages == SortDesc(CountKeys(PageUrls(visits), <<>>), <<>>)
        top == Take(sorted_pages, TopPagesLimit)
    IN [total |-> Len(visits),
        by_page |-> Take(sorted_pages, ByPageLimit),
        top_pages |-> [i \in DOMAIN top |-> [url |-> top[i].key, views |-> top[i].count]]]

\* _calculate_sources(visits); by_source is the dict in the order of its items
calculate_sources(visits) ==
    LET sorted_sources == SortDesc(CountKeys(Sources(visits), <<>>), <<>>)
        top == Take(sorted_sources, TopSourcesLimit)
    IN [by_source |-> Take(sorted_sources, BySourceLimit),
        top_sources |-> [i \in DOMAIN top |->
                           [source |-> top[i].key, visits |-> top[i].count]]]

\* _calculate_overview(visits, events): the counts and the top pages (the daily
\* average and the date range are left out)
calculate_overview(visits, events) ==
    [total_pageviews |-> Len(visits),
     unique_visitors |-> Cardinality({visits[i].visit_id : i \in DOMAIN visits}),
     total_events |-> Len(events),
     top_pages |-> get_top_pages(visits, TopPagesLimit)]

\* get_visitor_stats(start_date, end_date, metric): both collections are loaded, the
\* visits filtered by the two dates, and the metric asked for returned (overview for
\* an unknown name)
get_visitor_stats(vfile, efile, start_date, end_date, metric) ==
    LET v == read_json_file(vfile)
        e == read_json_file(efile)
        f1 == FilterByDate(v.data, start_date, TRUE)
        f2 == FilterByDate(f1.data, end_date, FALSE)
    IN IF v.outcome = "raised" \/ e.outcome = "raised"
       THEN Raised("UnicodeDecodeError")
       ELSE IF f1.outcome = "raised" \/ f2.outcome = "raised"
       THEN Raised("TypeError")
       ELSE Ok(CASE metric = "pageviews" -> calculate_pageviews(f2.data)
                 [] metric = "sources" -> calculate_sources(f2.data)
                 [] metric = "timeline" -> calculate_timeline(f2.data)
                 [] OTHER -> calculate_overview(f2.data, e.data))

\* get_recent_visits(limit): the number of visits returned
get_recent_visits(vfile, limit) ==
    LET v == read_json_file(vfile)
    IN IF v.outcome = "raised"
       THEN [outcome |-> "raised", count |-> 0]
       ELSE [outcome |-> "ok", count |-> Len(Take(v.data, limit))]

----------------------------------------------------------------------------
(* The service operations, called one after the other *)

Procs == 1..NumProcs

UserAgents == {"Mozilla/5.0"}
PageA == Str("/a", 2)
PageB == Str("/b", 2)

\* the arguments of the record_visit calls
VisitArgs ==
    [ip_address : {Ipv4Addr}, user_agent : UserAgents, page_url : {PageA},
     referrer : {None}, screen_resolution : {None}, language : {None},
     timestamp : {None, IsoZStr(0), BadTs}]

\* the arguments of the record_event calls
EventArgs ==
    [event_type : {Str("click", 5)}, event_data : {None}, visit_id : {EmptyStr},
     element_selector : {None}, timestamp : {None}]

\* the argument of the cleanup_data calls: None, or a number of days
CleanupArgs ==
    {[given |-> FALSE, days |-> 0]} \cup {[given |-> TRUE, days |-> d] : d \in 0..MaxDays}

\* get_recent_visits limits: one, and the default of the route
DefaultRecentLimit == 20
RecentLimits == {1, DefaultRecentLimit}

Configs ==
    [anonymize_ip : BOOLEAN, data_retention_days : {DataRetentionDays},
     max_log_lines : {max_log_lines}]

\* the configuration of a deployment that anonymizes addresses
DefaultConfig ==
    [anonymize_ip |-> TRUE, data_retention_days |-> DataRetentionDays,
     max_log_lines |-> max_log_lines]

\* the states a collection's file can be found in when the service starts
StartFiles == {AbsentFile, GarbledFile, BadUtf8File, JsonFile(<<>>)}

Idle == [p \in Procs |-> "idle"]
NoLocals == [p \in Procs |-> [op |-> "none"]]

Init ==
    /\ now = 0
    /\ config \in Configs
    /\ requests = <<>>
    /\ admitted = [k \in Identifiers |-> <<>>]
    /\ visitsFile \in StartFiles
    /\ eventsFile \in StartFiles
    /\ logFile = AbsentFile
    /\ logged = <<>>
    /\ last = [op |-> "init"]
    /\ built = <<>>
    /\ issued = <<>>
    /\ pc = Idle
    /\ local = NoLocals

\* the clock advances
Tick ==
    /\ now < MaxClock
    /\ now' = now + 1
    /\ last' = [op |-> "tick"]
    /\ UNCHANGED <<config, requests, admitted, visitsFile, eventsFile, logFile, logged,
                   built, issued, pc, local>>

\* VisitorService.record_visit
RecordVisit(a) ==
    /\ Len(Load(visitsFile)) < MaxRecords
    /\ LET r == record_visit(config, visitsFile, a, now)
       IN /\ visitsFile' = r.file
          /\ built' = IF r.outcome = "ok" THEN Append(built, r.visit_data) ELSE built
          /\ last' = [op |-> "record_visit", outcome |-> r.outcome, error |-> r.error,
                      visit_data |-> r.visit_data]
    /\ UNCHANGED <<now, config, requests, admitted, eventsFile, logFile, logged, issued,
                   pc, local>>

\* VisitorService.record_event
RecordEvent(a) ==
    /\ Len(Load(eventsFile)) < MaxRecords
    /\ LET r == record_event(eventsFile, a, now)
       IN /\ eventsFile' = r.file
          /\ issued' = IF r.outcome = "ok" THEN Append(issued, r.event_id) ELSE issued
          /\ last' = [op |-> "record_event", outcome |-> r.outcome, error |-> r.error,
                      event_id |-> r.event_id]
    /\ UNCHANGED <<now, config, requests, admitted, visitsFile, logFile, logged, built,
                   pc, local>>

\* VisitorService.get_visitor_stats
GetVisitorStats ==
    /\ LET r == get_visitor_stats(visitsFile, eventsFile, None, None, "overview")
       IN last' = [op |-> "get_visitor_stats", outcome |-> r.outcome, data |-> r.data]
    /\ UNCHANGED <<now, config, requests, admitted, visitsFile, eventsFile, logFile, logged,
                   built, issued, pc, local>>

\* VisitorService.get_recent_visits
GetRecentVisits(limit) ==
    /\ LET r == get_recent_visits(visitsFile, limit)
       IN last' = [op |-> "get_recent_visits", outcome |-> r.outcome,
                   count |-> r.count, limit |-> limit]
    /\ UNCHANGED <<now, config, requests, admitted, visitsFile, eventsFile, logFile, logged,
                   built, issued, pc, local>>

\* VisitorService.cleanup_data
CleanupData(arg) ==
    /\ LET r == cleanup_data(config, visitsFile, eventsFile, arg, now)
       IN /\ visitsFile' = r.visits
          /\ eventsFile' = r.events
          /\ last' = [op |-> "cleanup_data", outcome |-> r.outcome, error |-> r.error,
                      days |-> IF arg.given THEN arg.days
                               ELSE config.data_retention_days]
    /\ UNCHANGED <<now, config, requests, admitted, logFile, logged, built, issued, pc, local>>

Next ==
    \/ Tick
    \/ \E a \in VisitArgs : RecordVisit(a)
    \/ \E a \in EventArgs : RecordEvent(a)
    \/ GetVisitorStats
    \/ \E limit \in RecentLimits : GetRecentVisits(limit)
    \/ \E arg \in CleanupArgs : CleanupData(arg)

Spec == Init /\ [][Next]_vars

----------------------------------------------------------------------------
(* Claims about the collections, under Spec *)

ServiceOps ==
    {"record_visit", "record_event", "get_visitor_stats", "get_recent_visits",
     "cleanup_data"}
\* the operations that load the visits collection, and those that load the events
VisitsReaders ==
    {"record_visit", "get_visitor_stats", "get_recent_visits", "cleanup_data"}
EventsReaders == {"record_event", "get_visitor_stats", "cleanup_data"}
NoDataKinds == {"absent", "garbled", "badutf8"}

\* C5: a load of a collection whose backing file is absent or corrupt returns the
\* empty sequence and never fails, and every operation built on it then proceeds
\* (completes) as if the collection had no data.
C5_AbsentOrCorruptIsNoData ==
    [][(\/ last'.op \in VisitsReaders /\ visitsFile.kind \in NoDataKinds
        \/ last'.op \in EventsReaders /\ eventsFile.kind \in NoDataKinds)
       => last'.outcome = "ok"]_vars

\* what the retention rule keeps: the records whose timestamp fails to parse, or
\* parses to an instant >= cutoff
Retained(data, cutoff) ==
    LET Keep(item) ==
            \/ ~ParseTimestamp(item.timestamp).ok
            \/ ParseTimestamp(item.timestamp).at >= cutoff
    IN SelectSeq(data, Keep)

\* C6: after cleanup(retention_days) each collection contains, in their original
\* order, exactly the records that were present before and whose timestamp either
\* parses and is >= now - retention_days or fails to parse.
C6_CleanupKeepsFreshOrUnparsable ==
    [][last'.op = "cleanup_data"
       => /\ Load(visitsFile') = Retained(Load(visitsFile), CutoffDate(now, last'.days))
          /\ Load(eventsFile') = Retained(Load(eventsFile), CutoffDate(now, last'.days))]_vars

\* C7: cleanup always completes and reports success, whatever the collections hold
\* and whatever retention_days is.
C7_CleanupSucceeds ==
    last.op = "cleanup_data" => last.outcome = "ok"

----------------------------------------------------------------------------
(* The rate limiter on its own *)

InitLimiter ==
    /\ now = 0
    /\ config = DefaultConfig
    /\ requests = <<>>
    /\ admitted = [k \in Identifiers |-> <<>>]
    /\ visitsFile = AbsentFile
    /\ eventsFile = AbsentFile
    /\ logFile = AbsentFile
    /\ logged = <<>>
    /\ last = [op |-> "init"]
    /\ built = <<>>
    /\ issued = <<>>
    /\ pc = Idle
    /\ local = NoLocals

\* the clock advances between two calls of the limiter
TickLimiter ==
    /\ now < MaxNow
    /\ now' = now + 1
    /\ last' = [op |-> "tick"]
    /\ UNCHANGED <<config, requests, admitted, visitsFile, eventsFile, logFile, logged,
                   built, issued, pc, local>>

\* rate_limit_check(ip_address)
RateLimitCheck(identifier) ==
    /\ LET r == is_allowed(requests, identifier, now)
       IN /\ requests' = r.requests
          /\ admitted' = Admit(admitted, identifier, now, r.allowed)
          /\ last' = [op |-> "is_allowed", identifier |-> identifier,
                      allowed |-> r.allowed]
    /\ UNCHANGED <<now, config, visitsFile, eventsFile, logFile, logged, built, issued,
                   pc, local>>

NextLimiter ==
    \/ TickLimiter
    \/ \E identifier \in Identifiers : RateLimitCheck(identifier)

SpecLimiter == InitLimiter /\ [][NextLimiter]_vars

\* the number of calls by identifier that returned True at a time in (s - time_window, s]
AdmittedWithin(identifier, s) ==
    Cardinality({i \in DOMAIN admitted[identifier] :
                    /\ s - time_window < admitted[identifier][i]
                    /\ admitted[identifier][i] <= s})

\* C1: for every client key and every sequence of is_allowed calls at non-decreasing
\* times, the number of calls that returned true in any trailing interval
\* (s - time_window, s] is at most max_requests.
C1_WindowBound ==
    \A identifier \in Identifiers : \A s \in 0..(now + time_window) :
        AdmittedWithin(identifier, s) <= max_requests

\* a call was denied with the window full, after more than max_requests calls of the
\* key were admitted over time
C1_Witness ==
    /\ last.op = "is_allowed"
    /\ ~last.allowed
    /\ AdmittedWithin(last.identifier, now) = max_requests
    /\ Len(admitted[last.identifier]) > max_requests

\* the window of a key: its deque, empty for a key not seen yet
WindowOf(reqs, identifier) ==
    IF identifier \in DOMAIN reqs THEN reqs[identifier] ELSE <<>>

\* the timestamps of a window that are not older than now - time_window
NotOlder(dq, t) == LET Keep(ts) == ts >= t - time_window IN SelectSeq(dq, Keep)
\* the timestamps of a window that are newer than now - time_window
Newer(dq, t) == LET Keep(ts) == ts > t - time_window IN SelectSeq(dq, Keep)

\* C18 as stated: on each is_allowed call exactly the timestamps strictly older than
\* now - window_seconds are dropped; a timestamp equal to now - window_seconds is
\* retained and counts against max_requests for that call.
C18_EqualIsRetained ==
    [][last'.op = "is_allowed"
       => LET kept == NotOlder(WindowOf(requests, last'.identifier), now)
          IN /\ last'.allowed <=> Len(kept) < max_requests
             /\ requests'[last'.identifier] =
                   IF Len(kept) < max_requests THEN Append(kept, now) ELSE kept]_vars

\* C18 as amended: on each is_allowed call exactly the timestamps older than or equal
\* to now - window_seconds are dropped; a timestamp equal to now - window_seconds is
\* dropped and does not count against max_requests for that call.
C18_EqualIsDropped ==
    [][last'.op = "is_allowed"
       => LET kept == Newer(WindowOf(requests, last'.identifier), now)
          IN /\ last'.allowed <=> Len(kept) < max_requests
             /\ requests'[last'.identifier] =
                   IF Len(kept) < max_requests THEN Append(kept, now) ELSE kept]_vars

\* a call was admitted exactly time_window after max_requests admitted calls of the
\* key: their timestamps, equal to now - time_window, were dropped
C18_Witness ==
    /\ last.op = "is_allowed"
    /\ last.allowed
    /\ now >= time_window
    /\ Cardinality({i \in DOMAIN admitted[last.identifier] :
                       admitted[last.identifier][i] = now - time_window}) = max_requests
    /\ requests[last.identifier] = <<now>>

\* C19: a denied is_allowed call records no timestamp: the key's window after the
\* denial holds the same non-expired timestamps as before, so whether a call is
\* admitted depends on the admitted calls alone and denied calls never postpone the
\* time at which the key is admitted again.
C19_DenialLeavesWindow ==
    [][last'.op = "is_allowed"
       => /\ last'.allowed <=> AdmittedWithin(last'.identifier, now) < max_requests
          /\ ~last'.allowed
             => /\ requests'[last'.identifier] =
                      Newer(WindowOf(requests, last'.identifier), now)
                /\ admitted' = admitted]_vars

\* a call was denied some time after the window filled up, and the window still holds
\* the timestamps of the admitted calls only
C19_Witness ==
    /\ last.op = "is_allowed"
    /\ ~last.allowed
    /\ Len(requests[last.identifier]) = max_requests
    /\ requests[last.identifier][max_requests] < now
    /\ Len(admitted[last.identifier]) > max_requests

----------------------------------------------------------------------------
(* The access log *)

\* the log file once it has been written: one line per entry
LogLines(lines) == [kind |-> "lines", lines |-> lines]
\* a log file that open() refuses to read or write (PermissionError, an IOError)
UnreadableFile == [kind |-> "unreadable"]

\* json.dumps(log_entry, ensure_ascii=False) + '\n'
Line(entry) == [json |-> entry, end |-> "\n"]
\* line.strip() of a line of the log
Strip(line) == [json |-> line.json, end |-> ""]

\* f.readlines() of the log file, [] when it does not exist
ReadLines(file) == IF file.kind = "lines" THEN file.lines ELSE <<>>

\* seq[-n:] of Python: the last n elements for 0 < n < len, all of seq for n = 0 and
\* for n >= len, and seq without its first -n elements for n < 0
LastN(seq, n) ==
    IF n <= 0 \/ n >= Len(seq) THEN (IF n < 0 THEN SubSeq(seq, 1 - n, Len(seq)) ELSE seq)
    ELSE SubSeq(seq, Len(seq) - n + 1, Len(seq))

\* the log_entry dict of log_http_request (services.py 250-257) at time t
LogEntry(info, t) ==
    [timestamp |-> IsoStr(t), method |-> info.method, path |-> info.path,
     ip |-> info.ip, user_agent |-> info.user_agent, status_code |-> info.status_code]

\* how log_http_request ends on a log file: an IOError is swallowed, the
\* UnicodeDecodeError of readlines is not
LogOutcome(file) == IF file.kind = "badutf8" THEN "raised" ELSE "ok"

\* log_http_request(request_info) at time t with max_lines lines kept: the new log
\* file; the file is left as it was when reading or opening it raises
log_http_request(file, info, t, max_lines) ==
    IF file.kind \in {"badutf8", "unreadable"} THEN file
    ELSE LET lines == Append(ReadLines(file), Line(LogEntry(info, t)))
         IN LogLines(IF Len(lines) > max_lines THEN LastN(lines, max_lines)
                     ELSE lines)

\* get_http_logs(limit): the stripped lines returned
get_http_logs(file, limit) ==
    CASE file.kind = "absent"     -> Ok(<<>>)
      [] file.kind = "unreadable" -> Ok(<<>>)
      [] file.kind = "badutf8"    -> Raised("UnicodeDecodeError")
      [] file.kind = "lines"      ->
            LET tail == LastN(file.lines, limit)
            IN Ok([i \in DOMAIN tail |-> Strip(tail[i])])

----------------------------------------------------------------------------
(* The ingestion routes *)

validate_visitor_data_no_length(data) ==
    IF ~Truthy(data) THEN [valid |-> FALSE, message |-> "No data provided"]
    ELSE IF ~Truthy(Get(data.pageUrl))
         THEN [valid |-> FALSE, message |-> "Missing required field: pageUrl"]
    ELSE [valid |-> TRUE, message |-> "Validation passed"]
\* validate_visitor_data(data)
validate_visitor_data(data) ==
    IF ~Truthy(data) THEN [valid |-> FALSE, message |-> "No data provided"]
    ELSE IF ~Truthy(Get(data.pageUrl))
         THEN [valid |-> FALSE, message |-> "Missing required field: pageUrl"]
    ELSE IF Get(data.pageUrl).t # "str" \/ Get(data.pageUrl).len > MaxUrlLen
         THEN [valid |-> FALSE, message |-> "Invalid page URL format"]
    ELSE [valid |-> TRUE, message |-> "Validation passed"]

\* the request_info the handlers and the after_request hook log
RequestInfo(path, ip, user_agent, status) ==
    [method |-> "POST", path |-> path, ip |-> ip, user_agent |-> user_agent,
     status_code |-> status]

\* app.py log_request (after_request): one line for a request under /api/tracker
\* when http logging is enabled
log_request(file, path, ip, user_agent, status, t, max_lines) ==
    log_http_request(file, RequestInfo(path, ip, user_agent, status), t, max_lines)

\* the arguments track_visit passes to record_visit
VisitCall(ip, user_agent, data) ==
    [ip_address |-> ip, user_agent |-> user_agent,
     page_url |-> GetOr(data.pageUrl, EmptyStr),
     referrer |-> GetOr(data.referrer, EmptyStr),
     screen_resolution |-> GetOr(data.screenResolution, EmptyStr),
     language |-> GetOr(data.language, EmptyStr),
     timestamp |-> GetOr(data.timestamp, EmptyStr)]

\* the arguments track_event passes to record_event
EventCall(data) ==
    [event_type |-> Get(data.eventType),
     event_data |-> GetOr(data.eventData, EmptyDict),
     visit_id |-> GetOr(data.visitId, EmptyStr),
     element_selector |-> GetOr(data.elementSelector, EmptyStr),
     timestamp |-> GetOr(data.timestamp, EmptyStr)]

\* the arguments track_events_batch passes to record_event for one element
BatchEventCall(data) ==
    [event_type |-> GetOr(data.eventType, Str("unknown", 7)),
     event_data |-> GetOr(data.eventData, EmptyDict),
     visit_id |-> GetOr(data.visitId, EmptyStr),
     element_selector |-> GetOr(data.elementSelector, EmptyStr),
     timestamp |-> GetOr(data.timestamp, EmptyStr)]

RECURSIVE RecordAll(_, _, _, _)
\* the loop of track_events_batch: record_event for each element in turn; an
\* exception ends the loop and leaves what was written
RecordAll(file, items, t, ids) ==
    IF items = <<>> THEN [outcome |-> "ok", file |-> file, ids |-> ids]
    ELSE LET r == record_event(file, BatchEventCall(Head(items)), t)
         IN IF r.outcome = "raised"
            THEN [outcome |-> "raised", file |-> file, ids |-> ids]
            ELSE RecordAll(r.file, Tail(items), t, Append(ids, r.event_id))


\* the clients of the routes
RouteClients == {Ipv4Addr}

\* a JSON object posted to /visit
VisitBody(n, url, ts) ==
    [t |-> "dict", size |-> n, pageUrl |-> url, referrer |-> Missing,
     screenResolution |-> Missing, language |-> Missing, timestamp |-> ts]

\* the bodies posted to /visit: none, an object without pageUrl, a pageUrl that is
\* no string, one that is too long, and one of the greatest length accepted
VisitBodies ==
    {None,
     VisitBody(1, Missing, BadTs),
     VisitBody(1, Num(7), Missing),
     VisitBody(1, Str("/long", MaxUrlLen + 1), Missing),
     VisitBody(1, Str("/max", MaxUrlLen), Missing)}

\* a JSON object posted to /event, or an element of the list posted to /events
EventBody(n, type) ==
    [t |-> "dict", size |-> n, eventType |-> type, eventData |-> Missing,
     visitId |-> Missing, elementSelector |-> Missing, timestamp |-> Missing]

Click == Str("click", 5)
EventBodies == {None, EventBody(1, Missing), EventBody(1, Click)}

\* a JSON object posted to /events
BatchBody(n, events) == [t |-> "dict", size |-> n, events |-> events]
List(items) == [t |-> "list", items |-> items]

BatchBodies ==
    {None,
     BatchBody(1, List(<<>>)),
     BatchBody(1, List(<<EventBody(1, Missing)>>)),
     BatchBody(1, List(<<EventBody(1, Click), EventBody(1, Missing)>>))}

\* the states a collection's file is found in when the routes are exercised
RouteStartFiles == {AbsentFile, BadUtf8File}

InitRoutes ==
    /\ now = 0
    /\ config = DefaultConfig
    /\ requests = <<>>
    /\ admitted = [k \in Identifiers |-> <<>>]
    /\ visitsFile \in RouteStartFiles
    /\ eventsFile \in RouteStartFiles
    /\ logFile = AbsentFile
    /\ logged = <<>>
    /\ last = [op |-> "init"]
    /\ built = <<>>
    /\ issued = <<>>
    /\ pc = Idle
    /\ local = NoLocals

IngestStatusNoLimit(allowed, valid, outcome) ==
    IF ~valid THEN 400 ELSE IF outcome = "raised" THEN 500 ELSE 201
\* the status an ingestion handler answers with: 429 when the rate limit check
\* fails, else 400 when the body is rejected, else 201 once the record is stored;
\* an exception of the service becomes the 500 of the error handler
IngestStatus(allowed, valid, outcome) ==
    IF ~allowed THEN 429
    ELSE IF ~valid THEN 400
    ELSE IF outcome = "raised" THEN 500
    ELSE 201

\* track_visit (POST /api/tracker/visit), with the after_request hook
TrackVisit(ip, user_agent, data) ==
    LET rl == is_allowed(requests, ip, now)
        v == validate_visitor_data(data)
        r == record_visit(config, visitsFile, VisitCall(ip, user_agent, data), now)
        status == IngestStatus(rl.allowed, v.valid, r.outcome)
        path == "/api/tracker/visit"
        log1 == IF status = 201
                THEN log_http_request(logFile, RequestInfo(path, ip, user_agent, 201),
                                      now, config.max_log_lines)
                ELSE logFile
    IN /\ status = 201 => Len(Load(visitsFile)) < MaxRecords
       /\ requests' = rl.requests
       /\ visitsFile' = IF status = 201 THEN r.file ELSE visitsFile
       /\ built' = IF status = 201 THEN Append(built, r.visit_data) ELSE built
       /\ logFile' = log_request(log1, path, ip, user_agent, status, now,
                                  config.max_log_lines)
       /\ last' = [op |-> "track_visit", ip |-> ip,
                   allowed |-> rl.allowed, status |-> status]
       /\ UNCHANGED <<logged, now, config, admitted, eventsFile, issued, pc, local>>

\* track_event (POST /api/tracker/event), with the after_request hook
TrackEvent(ip, user_agent, data) ==
    LET rl == is_allowed(requests, ip, now)
        valid == Truthy(data) /\ Truthy(Get(data.eventType))
        r == record_event(eventsFile, EventCall(data), now)
        status == IngestStatus(rl.allowed, valid, r.outcome)
        path == "/api/tracker/event"
        log1 == IF status = 201
                THEN log_http_request(logFile, RequestInfo(path, ip, user_agent, 201),
                                      now, config.max_log_lines)
                ELSE logFile
    IN /\ status = 201 => Len(Load(eventsFile)) < MaxRecords
       /\ requests' = rl.requests
       /\ eventsFile' = IF status = 201 THEN r.file ELSE eventsFile
       /\ issued' = IF status = 201 THEN Append(issued, r.event_id) ELSE issued
       /\ logFile' = log_request(log1, path, ip, user_agent, status, now,
                                  config.max_log_lines)
       /\ last' = [op |-> "track_event", ip |-> ip,
                   allowed |-> rl.allowed, status |-> status]
       /\ UNCHANGED <<logged, now, config, admitted, visitsFile, built, pc, local>>

\* track_events_batch (POST /api/tracker/events), with the after_request hook
TrackEventsBatch(ip, user_agent, data) ==
    LET rl == is_allowed(requests, ip, now)
        events == IF Truthy(data) THEN GetOr(data.events, List(<<>>)) ELSE List(<<>>)
        some == events.items # <<>>
        r == RecordAll(eventsFile, events.items, now, <<>>)
        status == IngestStatus(rl.allowed, some, r.outcome)
        path == "/api/tracker/events"
    IN /\ status = 201 => Len(Load(eventsFile)) + Len(events.items) <= MaxRecords
       /\ requests' = rl.requests
       /\ eventsFile' = IF status \in {201, 500} THEN r.file ELSE eventsFile
       /\ issued' = IF status \in {201, 500} THEN issued \o r.ids ELSE issued
       /\ logFile' = log_request(logFile, path, ip, user_agent, status, now,
                                  config.max_log_lines)
       /\ last' = [op |-> "track_events_batch", ip |-> ip,
                   allowed |-> rl.allowed, status |-> status]
       /\ UNCHANGED <<logged, now, config, admitted, visitsFile, built, pc, local>>

\* the requests of a burst: the clock does not advance between them
NextRoutes ==
    \/ \E ip \in RouteClients, ua \in UserAgents, data \in VisitBodies :
          TrackVisit(ip, ua, data)
    \/ \E ip \in RouteClients, ua \in UserAgents, data \in EventBodies :
          TrackEvent(ip, ua, data)
    \/ \E ip \in RouteClients, ua \in UserAgents, data \in BatchBodies :
          TrackEventsBatch(ip, ua, data)

SpecRoutes == InitRoutes /\ [][NextRoutes]_vars

----------------------------------------------------------------------------
(* Claims about the ingestion routes, under SpecRoutes *)

IngestOps == {"track_visit", "track_event", "track_events_batch"}

\* C2: an ingestion request (POST /visit, /event or /events) whose rate-limit check
\* is denied is answered 429 whatever its body, and leaves the visits collection and
\* the events collection exactly as they were.
C2_DeniedWritesNothing ==
    [][(last'.op \in IngestOps /\ ~last'.allowed)
       => /\ last'.status = 429
          /\ visitsFile' = visitsFile
          /\ eventsFile' = eventsFile]_vars

\* a request was denied after a visit and an event had been stored
C2_Witness ==
    /\ last.op \in IngestOps
    /\ ~last.allowed
    /\ last.status = 429
    /\ Len(Load(visitsFile)) + Len(Load(eventsFile)) >= 2

\* a visit body that fails validation: no payload, no pageUrl, a pageUrl that is not
\* a string or is longer than 2048 characters
VisitInvalid(data) ==
    \/ data.t # "dict"
    \/ data.pageUrl \in {Missing, None}
    \/ data.pageUrl.t # "str"
    \/ data.pageUrl.len > 2048

\* an event body that fails validation: no payload or no eventType
EventInvalid(data) ==
    \/ data.t # "dict"
    \/ data.eventType \in {Missing, None}

\* C3: an admitted POST /visit or POST /event whose body fails validation is
\* answered 400 and leaves the visits and events collections unchanged.
C3_InvalidWritesNothing ==
    [][\A ip \in RouteClients, ua \in UserAgents :
         /\ \A data \in VisitBodies :
               (TrackVisit(ip, ua, data) /\ last'.allowed /\ VisitInvalid(data))
               => /\ last'.status = 400
                  /\ visitsFile' = visitsFile
                  /\ eventsFile' = eventsFile
         /\ \A data \in EventBodies :
               (TrackEvent(ip, ua, data) /\ last'.allowed /\ EventInvalid(data))
               => /\ last'.status = 400
                  /\ visitsFile' = visitsFile
                  /\ eventsFile' = eventsFile]_vars

\* an admitted request was answered 400 after a visit had been stored
C3_Witness ==
    /\ last.op \in {"track_visit", "track_event"}
    /\ last.allowed
    /\ last.status = 400
    /\ Len(Load(visitsFile)) >= 1

----------------------------------------------------------------------------
(* The access log on its own *)

\* the values config max_log_lines is given
LogMaxima == 0..max_log_lines

\* the limits GET /logs passes to get_http_logs: int(request.args.get('limit', 100))
DefaultLogLimit == 100
LogLimits == {-1, 0, 1, 2, DefaultLogLimit}

\* the request_info dicts logged
LogInfos ==
    {RequestInfo("/api/tracker/stats", Ipv4Addr, "Mozilla/5.0", st) : st \in {200, 429}}

\* the states the log file is found in when the service starts
LogStartFiles == {AbsentFile, UnreadableFile, BadUtf8File}

InitLog ==
    /\ now = 0
    /\ config \in [anonymize_ip : {TRUE}, data_retention_days : {DataRetentionDays},
                   max_log_lines : LogMaxima]
    /\ requests = <<>>
    /\ admitted = [k \in Identifiers |-> <<>>]
    /\ visitsFile = AbsentFile
    /\ eventsFile = AbsentFile
    /\ logFile \in LogStartFiles
    /\ logged = <<>>
    /\ last = [op |-> "init"]
    /\ built = <<>>
    /\ issued = <<>>
    /\ pc = Idle
    /\ local = NoLocals

\* VisitorService.log_http_request
LogHttpRequest(info) ==
    /\ Len(logged) < MaxLogged
    /\ logFile' = log_http_request(logFile, info, now, config.max_log_lines)
    /\ logged' = Append(logged, LogEntry(info, now))
    /\ last' = [op |-> "log_http_request", outcome |-> LogOutcome(logFile)]
    /\ UNCHANGED <<now, config, requests, admitted, visitsFile, eventsFile, built,
                   issued, pc, local>>

\* VisitorService.get_http_logs, with the limit get_logs passes
GetHttpLogs(limit) ==
    /\ LET r == get_http_logs(logFile, limit)
       IN last' = [op |-> "get_http_logs", limit |-> limit, outcome |-> r.outcome,
                   lines |-> r.data]
    /\ UNCHANGED <<now, config, requests, admitted, visitsFile, eventsFile, logFile,
                   logged, built, issued, pc, local>>

NextLog ==
    \/ Tick
    \/ \E info \in LogInfos : LogHttpRequest(info)
    \/ \E limit \in LogLimits : GetHttpLogs(limit)

SpecLog == InitLog /\ [][NextLog]_vars

Min(a, b) == IF a < b THEN a ELSE b

\* C12: after any sequence of n log calls with configured maximum M, the access log
\* holds at most M lines, and they are exactly the last min(n, M) entries logged, in
\* the order they were logged.
C12_LogKeepsLastM ==
    logFile.kind = "lines" =>
        LET n == Len(logged)
            k == Min(n, config.max_log_lines)
        IN /\ Len(logFile.lines) <= config.max_log_lines
           /\ logFile.lines = [i \in 1..k |-> Line(logged[n - k + i])]

\* C13: get_http_logs(limit) returns at most limit lines for every integer limit the
\* /logs route can pass, those lines being the most recent ones of the log in log
\* order; it returns the empty sequence when the log file is absent or unreadable,
\* and never raises.
C13_RecentAtMostLimit ==
    last.op = "get_http_logs" =>
        LET lines == ReadLines(logFile)
            n == Len(lines)
            k == IF last.limit < 0 THEN 0 ELSE Min(last.limit, n)
        IN /\ last.outcome = "ok"
           /\ Len(last.lines) <= k
           /\ last.lines = [i \in 1..k |-> Strip(lines[n - k + i])]

----------------------------------------------------------------------------
(* The statistics over time: date filters and the timeline *)

\* the visits recorded: two clients, and a timestamp left to the server or supplied
\* by the client as a string that is no ISO-8601 timestamp
DatedVisitArgs ==
    [ip_address : {Ipv4Addr, OtherAddr}, user_agent : UserAgents, page_url : {PageA},
     referrer : {None}, screen_resolution : {None}, language : {None},
     timestamp : {None, BadTs}]

\* the startDate and endDate of GET /stats: absent, malformed, well-formed
MalformedDate == Str("soon", 4)
StartDates == {None, MalformedDate, IsoStr(1)}
EndDates == {None, IsoStr(1)}

InitStats ==
    /\ now = 0
    /\ config = DefaultConfig
    /\ requests = <<>>
    /\ admitted = [k \in Identifiers |-> <<>>]
    /\ visitsFile = AbsentFile
    /\ eventsFile = AbsentFile
    /\ logFile = AbsentFile
    /\ logged = <<>>
    /\ last = [op |-> "init"]
    /\ built = <<>>
    /\ issued = <<>>
    /\ pc = Idle
    /\ local = NoLocals

\* VisitorService.record_visit, while the statistics are exercised
StatsVisit(a) ==
    /\ Len(Load(visitsFile)) < MaxVisits
    /\ LET r == record_visit(config, visitsFile, a, now)
       IN /\ visitsFile' = r.file
          /\ built' = IF r.outcome = "ok" THEN Append(built, r.visit_data) ELSE built
          /\ last' = [op |-> "record_visit", outcome |-> r.outcome]
    /\ UNCHANGED <<now, config, requests, admitted, eventsFile, logFile, logged,
                   issued, pc, local>>

\* VisitorService.get_visitor_stats(start_date, end_date, metric)
QueryStats(start_date, end_date, metric) ==
    /\ LET r == get_visitor_stats(visitsFile, eventsFile, start_date, end_date, metric)
       IN last' = [op |-> "get_visitor_stats", start_date |-> start_date,
                   end_date |-> end_date, metric |-> metric,
                   outcome |-> r.outcome, data |-> r.data]
    /\ UNCHANGED <<now, config, requests, admitted, visitsFile, eventsFile, logFile,
                   logged, built, issued, pc, local>>

NextTimeline ==
    \/ Tick
    \/ \E a \in DatedVisitArgs : StatsVisit(a)
    \/ \E start_date \in StartDates, end_date \in EndDates :
          QueryStats(start_date, end_date, "timeline")

SpecTimeline == InitStats /\ [][NextTimeline]_vars

\* the visits whose timestamp t satisfies start_date <= t <= end_date, a bound that is
\* absent or malformed not constraining
InRange(visits, start_date, end_date) ==
    LET Bounds(date) == Truthy(date) /\ FromIso(date).ok
        Keep(v) ==
            /\ Bounds(start_date) =>
                  FromIso(v.timestamp).ok /\ FromIso(v.timestamp).at >= FromIso(start_date).at
            /\ Bounds(end_date) =>
                  FromIso(v.timestamp).ok /\ FromIso(v.timestamp).at <= FromIso(end_date).at
    IN SelectSeq(visits, Keep)

\* C14: for a stats query with well-formed start_date and/or end_date, the metric is
\* computed over exactly the stored visits whose timestamp t satisfies
\* start_date <= t <= end_date, whatever other visit records (also with unparsable
\* timestamps) are in the collection, and the query does not raise.
C14_FilterExactlyInRange ==
    (/\ last.op = "get_visitor_stats"
     /\ last.metric = "timeline"
     /\ \/ Truthy(last.start_date) /\ FromIso(last.start_date).ok
        \/ Truthy(last.end_date) /\ FromIso(last.end_date).ok)
    => /\ last.outcome = "ok"
       /\ last.data = calculate_timeline(InRange(Load(visitsFile), last.start_date,
                                                 last.end_date))

RECURSIVE SumPageviews(_)
SumPageviews(timeline) ==
    IF timeline = <<>> THEN 0
    ELSE Head(timeline).pageviews + SumPageviews(Tail(timeline))

\* C15: the timeline metric returns one entry per distinct calendar day (first 10
\* characters of timestamp) present in the visits, sorted by date ascending with no
\* duplicate dates; pageviews is the number of visits on that day and visitors the
\* number of distinct visit_id on that day, so the pageviews sum to the visit count.
C15_TimelinePerDay ==
    (/\ last.op = "get_visitor_stats"
     /\ last.metric = "timeline"
     /\ last.start_date = None
     /\ last.end_date = None)
    => LET visits == Load(visitsFile)
           timeline == last.data
           OnDay(date) == {k \in DOMAIN visits : First10(visits[k].timestamp) = date}
       IN /\ last.outcome = "ok"
          /\ {timeline[i].date : i \in DOMAIN timeline} =
                {First10(visits[k].timestamp) : k \in DOMAIN visits}
          /\ \A i, j \in DOMAIN timeline :
                i < j => /\ timeline[i].date # timeline[j].date
                         /\ DateLeq(timeline[i].date, timeline[j].date)
          /\ \A i \in DOMAIN timeline :
                /\ timeline[i].pageviews = Cardinality(OnDay(timeline[i].date))
                /\ timeline[i].visitors =
                      Cardinality({visits[k].visit_id : k \in OnDay(timeline[i].date)})
          /\ SumPageviews(timeline) = Len(visits)

\* a timeline of two days, the first with two visits of one visitor
C15_Witness ==
    /\ last.op = "get_visitor_stats"
    /\ last.metric = "timeline"
    /\ last.start_date = None
    /\ last.end_date = None
    /\ last.outcome = "ok"
    /\ Len(last.data) = 2
    /\ last.data[1].pageviews = 2
    /\ last.data[1].visitors = 1

----------------------------------------------------------------------------
(* The statistics by count: the top lists *)

PageC == Str("/c", 2)

\* the visits recorded: three pages, reached directly, from a search engine, or with
\* a referrer that is no URL
TopVisitArgs ==
    [ip_address : {Ipv4Addr}, user_agent : UserAgents, page_url : {PageA, PageB, PageC},
     referrer : {None, Url("search.example.com", 32), Str("bookmark", 8)},
     screen_resolution : {None}, language : {None}, timestamp : {None}]

\* the metrics that hold top lists
TopMetrics == {"pageviews", "sources", "overview"}

\* the limits _get_top_pages is called with: short ones, and the one of the overview
TopLimits == {1, 2, TopPagesLimit}

\* VisitorService._get_top_pages(visits, limit) on the stored visits
GetTopPages(limit) ==
    /\ LET v == read_json_file(visitsFile)
       IN last' = [op |-> "get_top_pages", limit |-> limit, outcome |-> v.outcome,
                   data |-> get_top_pages(v.data, limit)]
    /\ UNCHANGED <<now, config, requests, admitted, visitsFile, eventsFile, logFile,
                   logged, built, issued, pc, local>>

NextTopN ==
    \/ \E a \in TopVisitArgs : StatsVisit(a)
    \/ \E metric \in TopMetrics : QueryStats(None, None, metric)
    \/ \E limit \in TopLimits : GetTopPages(limit)

SpecTopN == InitStats /\ [][NextTopN]_vars

\* a top list as pairs of key and count
PagePairs(top) == [i \in DOMAIN top |-> [key |-> top[i].url, count |-> top[i].views]]
SourcePairs(top) == [i \in DOMAIN top |-> [key |-> top[i].source, count |-> top[i].visits]]

\* list holds the first n keys of keys (one key per record, in collection order) in
\* the order: larger count first, and among equal counts the key that occurs first
IsTopN(list, keys, n) ==
    LET Distinct == {keys[i] : i \in DOMAIN keys}
        Count(k) == Cardinality({i \in DOMAIN keys : keys[i] = k})
        FirstAt(k) == CHOOSE i \in DOMAIN keys :
                         keys[i] = k /\ \A j \in DOMAIN keys : keys[j] = k => i <= j
        Before(a, b) == \/ Count(a) > Count(b)
                        \/ Count(a) = Count(b) /\ FirstAt(a) < FirstAt(b)
        Listed == {list[i].key : i \in DOMAIN list}
    IN /\ Len(list) = Min(n, Cardinality(Distinct))
       /\ Listed \subseteq Distinct
       /\ \A i \in DOMAIN list : list[i].count = Count(list[i].key)
       /\ \A i, j \in DOMAIN list : i < j => Before(list[i].key, list[j].key)
       /\ \A k \in Distinct \ Listed : \A i \in DOMAIN list : Before(list[i].key, k)

\* C16: every top-N list (top_pages, by_page, top_sources, by_source) is sorted by
\* count descending and is the first N entries of that order; among keys of equal
\* count the key whose first occurrence comes earlier in the collection comes first.
C16_TopListsStableDescending ==
    LET visits == Load(visitsFile)
    IN /\ (last.op = "get_visitor_stats" /\ last.metric = "pageviews")
          => /\ IsTopN(last.data.by_page, PageUrls(visits), ByPageLimit)
             /\ IsTopN(PagePairs(last.data.top_pages), PageUrls(visits), TopPagesLimit)
       /\ (last.op = "get_visitor_stats" /\ last.metric = "sources")
          => /\ IsTopN(last.data.by_source, Sources(visits), BySourceLimit)
             /\ IsTopN(SourcePairs(last.data.top_sources), Sources(visits),
                       TopSourcesLimit)
       /\ (last.op = "get_visitor_stats" /\ last.metric = "overview")
          => IsTopN(PagePairs(last.data.top_pages), PageUrls(visits), TopPagesLimit)
       /\ last.op = "get_top_pages"
          => IsTopN(PagePairs(last.data), PageUrls(visits), last.limit)

\* the top two of three pages seen once each: the two seen first, in the order they
\* were seen, which is not the order of their names
C16_Witness ==
    /\ last.op = "get_top_pages"
    /\ last.limit = 2
    /\ Len(Load(visitsFile)) = 3
    /\ Load(visitsFile)[1].page_url = PageC
    /\ Load(visitsFile)[2].page_url = PageA
    /\ Load(visitsFile)[3].page_url = PageB
    /\ last.data = <<[url |-> PageC, views |-> 1], [url |-> PageA, views |-> 1]>>

----------------------------------------------------------------------------
(* The visitor id *)

\* the record_visit calls: each client and user agent with nothing but the page, and
\* with every other field supplied
IdVisitArgs ==
    [ip_address : Identifiers, user_agent : {"Mozilla/5.0", "curl/8.0"},
     page_url : {PageA}, referrer : {None}, screen_resolution : {None},
     language : {None}, timestamp : {None}]
    \cup
    [ip_address : Identifiers, user_agent : {"Mozilla/5.0", "curl/8.0"},
     page_url : {PageB}, referrer : {Url("search.example.com", 32)},
     screen_resolution : {Str("1920x1080", 9)}, language : {Str("en", 2)},
     timestamp : {BadTs}]

\* VisitorService.record_visit, returning (visit_id, visit_data)
IdVisit(a) ==
    /\ Len(Load(visitsFile)) < MaxRecords
    /\ LET r == record_visit(config, visitsFile, a, now)
       IN /\ visitsFile' = r.file
          /\ built' = IF r.outcome = "ok" THEN Append(built, r.visit_data) ELSE built
          /\ last' = [op |-> "record_visit", outcome |-> r.outcome, args |-> a,
                      visit_id |-> r.visit_data.visit_id, visit_data |-> r.visit_data]
    /\ UNCHANGED <<now, config, requests, admitted, eventsFile, logFile, logged,
                   issued, pc, local>>

\* the next request finds the anonymize_ip setting changed: get_visitor_service
\* builds a VisitorService from the application's configuration for every request
Reconfigure(cfg) ==
    /\ cfg # config
    /\ config' = cfg
    /\ UNCHANGED <<now, requests, admitted, visitsFile, eventsFile, logFile, logged,
                   last, built, issued, pc, local>>

NextVisitId ==
    \/ \E a \in IdVisitArgs : IdVisit(a)
    \/ \E cfg \in Configs : Reconfigure(cfg)

SpecVisitId == Init /\ [][NextVisitId]_vars

\* C17: visit_id is a deterministic function of (ip_address, user_agent) as supplied:
\* a record_visit call returns the visit_id the call before it returned whenever both
\* were given the same pair, whatever their other arguments, the anonymize_ip
\* setting and the store hold, and the stored record's session_id is its visit_id.
C17_VisitIdOfPairOnly ==
    [][(/\ last'.op = "record_visit"
        /\ last'.outcome = "ok")
       => /\ last'.visit_data.session_id = last'.visit_id
          /\ Load(visitsFile')[Len(Load(visitsFile'))].visit_id = last'.visit_id
          /\ (/\ last.op = "record_visit"
              /\ last.args.ip_address = last'.args.ip_address
              /\ last.args.user_agent = last'.args.user_agent)
             => last'.visit_id = last.visit_id]_vars

\* two calls for the same client and user agent returned the same visit_id although
\* every other argument differed and the address was stored anonymized only once
C17_Witness ==
    /\ last.op = "record_visit"
    /\ Len(built) = 2
    /\ built[1].visit_id = built[2].visit_id
    /\ built[1].page_url # built[2].page_url
    /\ built[1].timestamp # built[2].timestamp
    /\ built[1].ip_address # built[2].ip_address

----------------------------------------------------------------------------
(* The life of the stored records: every operation but cleanup, one after the other *)

\* the states a collection's file is found in: not there yet, or left with a text
\* that is no JSON document
LifecycleStartFiles == {AbsentFile, GarbledFile}

InitLifecycle ==
    /\ now = 0
    /\ config = DefaultConfig
    /\ requests = <<>>
    /\ admitted = [k \in Identifiers |-> <<>>]
    /\ visitsFile \in LifecycleStartFiles
    /\ eventsFile \in LifecycleStartFiles
    /\ logFile = AbsentFile
    /\ logged = <<>>
    /\ last = [op |-> "init"]
    /\ built = <<>>
    /\ issued = <<>>
    /\ pc = Idle
    /\ local = NoLocals

NextLifecycle ==
    \/ \E a \in VisitArgs : RecordVisit(a)
    \/ \E a \in EventArgs : RecordEvent(a)
    \/ \E metric \in TopMetrics : QueryStats(None, None, metric)
    \/ \E limit \in RecentLimits : GetRecentVisits(limit)
    \/ LogHttpRequest(RequestInfo("/api/tracker/stats", Ipv4Addr, "Mozilla/5.0", 200))
    \/ GetHttpLogs(DefaultLogLimit)

SpecLifecycle == InitLifecycle /\ [][NextLifecycle]_vars

\* seq is the beginning of other
IsPrefix(seq, other) ==
    /\ Len(seq) <= Len(other)
    /\ \A i \in DOMAIN seq : other[i] = seq[i]

----------------------------------------------------------------------------
(* Concurrent callers of record_visit and record_event *)

(* Each caller runs one call at a time, statement by statement: pc[p] names the     *)
(* statement it executes next and local[p] holds its local variables.  A caller    *)
(* is a request thread or a worker process; nothing in the code serializes them.   *)
(* write_json_file is two steps: open(filepath, 'w') empties the file, and the     *)
(* text is written when the file is closed.                                        *)

VisitPcs == {"visit_read", "visit_open", "visit_dump"}
EventPcs == {"event_size", "event_read", "event_open", "event_dump"}

\* the arguments of the concurrent record_visit calls
ConcVisitArgs ==
    [ip_address : {Ipv4Addr}, user_agent : UserAgents, page_url : {PageA, PageB},
     referrer : {None}, screen_resolution : {None}, language : {None},
     timestamp : {None}]

\* open(filepath, 'w'): the file exists and is empty, which is no JSON document
OpenForWriting == GarbledFile

\* json.dump and close by a caller that opened the file before: the text is written
\* from the start of the file; a longer document written by another caller since
\* then keeps its tail, which leaves a text that is no JSON document
DumpAndClose(file, data) ==
    IF file.kind = "json" /\ Len(file.data) > Len(data)
    THEN GarbledFile
    ELSE write_json_file(data)

InitConc ==
    /\ now = 0
    /\ config = DefaultConfig
    /\ requests = <<>>
    /\ admitted = [k \in Identifiers |-> <<>>]
    /\ visitsFile = AbsentFile
    /\ eventsFile = AbsentFile
    /\ logFile = AbsentFile
    /\ logged = <<>>
    /\ last = [op |-> "init"]
    /\ built = <<>>
    /\ issued = <<>>
    /\ pc = Idle
    /\ local = NoLocals

\* the calls of record_visit begun so far
VisitsBegun == Len(built) + Cardinality({p \in Procs : pc[p] \in VisitPcs})
\* the calls of record_event begun so far
EventsBegun == Len(issued) + Cardinality({p \in Procs : pc[p] \in EventPcs})

\* record_visit, lines 25-41: the caller builds visit_data
VisitBegin(p, a) ==
    /\ pc[p] = "idle"
    /\ VisitsBegun < MaxRecords
    /\ pc' = [pc EXCEPT ![p] = "visit_read"]
    /\ local' = [local EXCEPT ![p] = [op |-> "record_visit",
                                      visit_data |-> VisitData(config, a, now),
                                      visits |-> <<>>, replaced |-> <<>>]]
    /\ UNCHANGED <<now, config, requests, admitted, visitsFile, eventsFile, logFile, logged,
                   last, built, issued>>

\* record_visit, line 43: visits = read_json_file(self.visits_file)
VisitRead(p) ==
    /\ pc[p] = "visit_read"
    /\ LET rd == read_json_file(visitsFile)
       IN /\ pc' = [pc EXCEPT ![p] = IF rd.outcome = "raised" THEN "idle"
                                     ELSE "visit_open"]
          /\ local' = [local EXCEPT ![p].visits = rd.data]
    /\ UNCHANGED <<now, config, requests, admitted, visitsFile, eventsFile, logFile, logged,
                   last, built, issued>>

\* record_visit, lines 44-45: visits.append(visit_data), and write_json_file opens
\* the file; replaced remembers the sequence the file held until then (history)
VisitOpen(p) ==
    /\ pc[p] = "visit_open"
    /\ local' = [local EXCEPT ![p].visits = AppendRecord(@, local[p].visit_data),
                              ![p].replaced = Load(visitsFile)]
    /\ visitsFile' = OpenForWriting
    /\ pc' = [pc EXCEPT ![p] = "visit_dump"]
    /\ UNCHANGED <<now, config, requests, admitted, eventsFile, logFile, logged, last,
                   built, issued>>

\* record_visit, lines 45-47: write_json_file writes the list, and the call returns
VisitDump(p) ==
    /\ pc[p] = "visit_dump"
    /\ visitsFile' = DumpAndClose(visitsFile, local[p].visits)
    /\ built' = Append(built, local[p].visit_data)
    /\ pc' = [pc EXCEPT ![p] = "idle"]
    /\ local' = [local EXCEPT ![p] = [op |-> "none"]]
    /\ UNCHANGED <<now, config, requests, admitted, eventsFile, logFile, logged, last,
                   issued>>

\* record_event is called: the caller is about to execute line 51
EventBegin(p, a) ==
    /\ pc[p] = "idle"
    /\ EventsBegun < MaxRecords
    /\ pc' = [pc EXCEPT ![p] = "event_size"]
    /\ local' = [local EXCEPT ![p] = [op |-> "record_event", args |-> a, size |-> 0,
                                      event |-> None, events |-> <<>>]]
    /\ UNCHANGED <<now, config, requests, admitted, visitsFile, eventsFile, logFile, logged,
                   last, built, issued>>

\* record_event, lines 50-57: the event is built, its event_id from the length of
\* the list read at line 51
EventSize(p) ==
    /\ pc[p] = "event_size"
    /\ LET sz == read_json_file(eventsFile)
       IN /\ pc' = [pc EXCEPT ![p] = IF sz.outcome = "raised" THEN "idle"
                                     ELSE "event_read"]
          /\ local' = [local EXCEPT ![p].size = Len(sz.data),
                                    ![p].event = EventData(Len(sz.data),
                                                           local[p].args, now)]
    /\ UNCHANGED <<now, config, requests, admitted, visitsFile, eventsFile, logFile, logged,
                   last, built, issued>>

\* record_event, line 59: events = read_json_file(self.events_file)
EventRead(p) ==
    /\ pc[p] = "event_read"
    /\ LET rd == read_json_file(eventsFile)
       IN /\ pc' = [pc EXCEPT ![p] = IF rd.outcome = "raised" THEN "idle"
                                     ELSE "event_open"]
          /\ local' = [local EXCEPT ![p].events = rd.data]
    /\ UNCHANGED <<now, config, requests, admitted, visitsFile, eventsFile, logFile, logged,
                   last, built, issued>>

\* record_event, lines 60-61: events.append(event), and write_json_file opens the file
EventOpen(p) ==
    /\ pc[p] = "event_open"
    /\ local' = [local EXCEPT ![p].events = AppendRecord(@, local[p].event)]
    /\ eventsFile' = OpenForWriting
    /\ pc' = [pc EXCEPT ![p] = "event_dump"]
    /\ UNCHANGED <<now, config, requests, admitted, visitsFile, logFile, logged, last,
                   built, issued>>

\* record_event, lines 61-63: write_json_file writes the list, and the call returns
\* event['event_id']
EventDump(p) ==
    /\ pc[p] = "event_dump"
    /\ eventsFile' = DumpAndClose(eventsFile, local[p].events)
    /\ issued' = Append(issued, local[p].event.event_id)
    /\ pc' = [pc EXCEPT ![p] = "idle"]
    /\ local' = [local EXCEPT ![p] = [op |-> "none"]]
    /\ UNCHANGED <<now, config, requests, admitted, visitsFile, logFile, logged, last,
                   built>>

\* the sequences a load of the visits collection may return if every write
\* substitutes the stored sequence in one step: the old and the new sequence of each
\* write under way, the stored sequence when there is none
CompleteSequences ==
    IF \E q \in Procs : pc[q] = "visit_dump"
    THEN UNION {{local[q].replaced, local[q].visits} :
                   q \in {r \in Procs : pc[r] = "visit_dump"}}
    ELSE {Load(visitsFile)}

\* a caller loads the visits collection (read_json_file, as line 66 or 278 do) while
\* others are inside record_visit; complete is history
LoadRead(p) ==
    /\ pc[p] = "idle"
    /\ LET rd == read_json_file(visitsFile)
       IN local' = [local EXCEPT ![p] = [op |-> "read_json_file",
                                         outcome |-> rd.outcome, data |-> rd.data,
                                         complete |-> CompleteSequences]]
    /\ pc' = [pc EXCEPT ![p] = "load_return"]
    /\ UNCHANGED <<now, config, requests, admitted, visitsFile, eventsFile, logFile, logged,
                   last, built, issued>>

\* the load returns to its caller
LoadReturn(p) ==
    /\ pc[p] = "load_return"
    /\ pc' = [pc EXCEPT ![p] = "idle"]
    /\ local' = [local EXCEPT ![p] = [op |-> "none"]]
    /\ UNCHANGED <<now, config, requests, admitted, visitsFile, eventsFile, logFile, logged,
                   last, built, issued>>

NextConc ==
    \/ \E p \in Procs, a \in ConcVisitArgs : VisitBegin(p, a)
    \/ \E p \in Procs : VisitRead(p)
    \/ \E p \in Procs : VisitOpen(p)
    \/ \E p \in Procs : VisitDump(p)
    \/ \E p \in Procs, a \in EventArgs : EventBegin(p, a)
    \/ \E p \in Procs : EventSize(p)
    \/ \E p \in Procs : EventRead(p)
    \/ \E p \in Procs : EventOpen(p)
    \/ \E p \in Procs : EventDump(p)
    \/ \E p \in Procs : LoadRead(p)
    \/ \E p \in Procs : LoadReturn(p)

SpecConc == InitConc /\ [][NextConc]_vars

----------------------------------------------------------------------------
(* Claims about concurrent callers, under SpecConc *)

AllIdle == \A p \in Procs : pc[p] = "idle"
Range(seq) == {seq[i] : i \in DOMAIN seq}

\* C9: append is a read-whole-collection, add-one, write-whole-collection cycle with
\* no locking: whenever the visits file holds a list, it is the list of the caller
\* that wrote last (it ends with the record of the call that completed last), it
\* holds only records of completed calls and no more records than calls completed;
\* it can hold fewer (C9_Witness: a lost update).
C9_LastWriterWins ==
    visitsFile.kind = "json" =>
        /\ built # <<>>
        /\ visitsFile.data[Len(visitsFile.data)] = built[Len(built)]
        /\ Len(visitsFile.data) <= Len(built)
        /\ Range(visitsFile.data) \subseteq Range(built)

\* two interleaved record_visit calls both completed and the collection holds only
\* one of the two new records
C9_Witness ==
    /\ AllIdle
    /\ Len(built) = 2
    /\ built[1] # built[2]
    /\ visitsFile.kind = "json"
    /\ Len(visitsFile.data) = 1

\* C10: under concurrent writers the event_id comes from a size snapshot taken apart
\* from the list that is appended to: every id returned is at least 1 and at most the
\* number of calls completed so far, and the event stored last carries the id
\* returned last; ids can repeat and differ from the position (C10_Witness).
C10_EventIdFromSnapshot ==
    /\ \A i \in DOMAIN issued : 1 <= issued[i] /\ issued[i] <= i
    /\ eventsFile.kind = "json" =>
          /\ issued # <<>>
          /\ eventsFile.data[Len(eventsFile.data)].event_id = issued[Len(issued)]
          /\ Len(eventsFile.data) <= Len(issued)

\* two interleaved record_event calls returned the same event_id, and the second
\* stored event carries an event_id that is not its position
C10_Witness ==
    /\ AllIdle
    /\ Len(issued) = 2
    /\ issued[1] = issued[2]
    /\ eventsFile.kind = "json"
    /\ Len(eventsFile.data) = 2
    /\ eventsFile.data[2].event_id # 2

\* C11: the whole-file write is atomic with respect to readers: a load that runs
\* while a write is under way returns either the complete old sequence or the
\* complete new sequence, never an empty, truncated or otherwise different one.
C11_ReplaceAtomicForReaders ==
    \A p \in Procs :
        pc[p] = "load_return" =>
            /\ local[p].outcome = "ok"
            /\ local[p].data \in local[p].complete

----------------------------------------------------------------------------
(* cleanup_data called while record_visit calls are under way *)

(* A cleanup_data call is one step per file of its loop (services.py 291-308).    *)
(* The read of line 295 and the write of line 308 are not steps of their own:     *)
(* for a file that exists line 293 raises before either, and for a file that      *)
(* does not exist the loop body is skipped.                                        *)

\* cleanup_data(days) is called: days = None takes the configured retention
CleanupBegin(p, arg) ==
    /\ pc[p] = "idle"
    /\ pc' = [pc EXCEPT ![p] = "cleanup_visits"]
    /\ local' = [local EXCEPT ![p] =
                    [op |-> "cleanup_data",
                     days |-> IF arg.given THEN arg.days ELSE config.data_retention_days]]
    /\ UNCHANGED <<now, config, requests, admitted, visitsFile, eventsFile, logFile,
                   logged, last, built, issued>>

\* cleanup_data, the iteration of the loop for the visits file
CleanupVisits(p) ==
    /\ pc[p] = "cleanup_visits"
    /\ LET r == CleanupFile(visitsFile, local[p].days, now)
       IN /\ visitsFile' = r.file
          /\ pc' = [pc EXCEPT ![p] = IF r.outcome = "raised" THEN "idle"
                                     ELSE "cleanup_events"]
          /\ local' = [local EXCEPT ![p] = IF r.outcome = "raised" THEN [op |-> "none"]
                                           ELSE local[p]]
          /\ last' = IF r.outcome = "raised"
                     THEN [op |-> "cleanup_data", outcome |-> "raised",
                           found |-> Exists(visitsFile), wrote |-> FALSE]
                     ELSE last
    /\ UNCHANGED <<now, config, requests, admitted, eventsFile, logFile, logged,
                   built, issued>>

\* cleanup_data, the iteration of the loop for the events file, and return True
CleanupEvents(p) ==
    /\ pc[p] = "cleanup_events"
    /\ LET r == CleanupFile(eventsFile, local[p].days, now)
       IN /\ eventsFile' = r.file
          /\ last' = [op |-> "cleanup_data", outcome |-> r.outcome,
                      found |-> Exists(eventsFile),
                      wrote |-> Exists(eventsFile) /\ r.outcome = "ok"]
    /\ pc' = [pc EXCEPT ![p] = "idle"]
    /\ local' = [local EXCEPT ![p] = [op |-> "none"]]
    /\ UNCHANGED <<now, config, requests, admitted, visitsFile, logFile, logged,
                   built, issued>>

NextCleanupConc ==
    \/ \E p \in Procs, a \in ConcVisitArgs : VisitBegin(p, a)
    \/ \E p \in Procs : VisitRead(p)
    \/ \E p \in Procs : VisitOpen(p)
    \/ \E p \in Procs : VisitDump(p)
    \/ \E p \in Procs, arg \in CleanupArgs : CleanupBegin(p, arg)
    \/ \E p \in Procs : CleanupVisits(p)
    \/ \E p \in Procs : CleanupEvents(p)

SpecCleanupConc == InitConc /\ [][NextCleanupConc]_vars

\* C21: a cleanup interleaved with an append on the same collection reads the
\* collection and later writes the survivors back, so that a record appended in
\* between is lost: a cleanup call that finds the collection's file gets to write it.
C21_CleanupWritesBackWhatItRead ==
    (last.op = "cleanup_data" /\ last.found) => last.wrote

----------------------------------------------------------------------------
(* The access log under the routes: the handlers' own lines and the hook's *)

\* the request_info of a GET request
GetRequestInfo(path, ip, user_agent, status) ==
    [RequestInfo(path, ip, user_agent, status) EXCEPT !.method = "GET"]

\* the metrics asked of /stats: the default and a named one
StatsMetrics == {"overview", "pageviews"}

\* get_statistics (GET /api/tracker/stats), with the after_request hook: no rate
\* limit check; the handler logs the request itself before it answers 200, and the
\* hook logs it again; an exception of the service becomes the 500 of the error
\* handler, logged by the hook alone
GetStatistics(ip, user_agent, metric) ==
    LET r == get_visitor_stats(visitsFile, eventsFile, None, None, metric)
        status == IF r.outcome = "raised" THEN 500 ELSE 200
        path == "/api/tracker/stats"
        log1 == IF status = 200
                THEN log_http_request(logFile, GetRequestInfo(path, ip, user_agent, 200),
                                      now, config.max_log_lines)
                ELSE logFile
    IN /\ logFile' = log_http_request(log1, GetRequestInfo(path, ip, user_agent, status),
                                      now, config.max_log_lines)
       /\ last' = [op |-> "get_statistics", ip |-> ip, allowed |-> TRUE,
                   status |-> status]
       /\ UNCHANGED <<now, config, requests, admitted, visitsFile, eventsFile, logged,
                      built, issued, pc, local>>

\* the requests under /api/tracker of a burst
NextRequests ==
    \/ NextRoutes
    \/ \E ip \in RouteClients, ua \in UserAgents, metric \in StatsMetrics :
          GetStatistics(ip, ua, metric)

SpecRequests == InitRoutes /\ [][NextRequests]_vars

\* the number of lines of the access log
LogLength(file) == Len(ReadLines(file))

\* C22: the access log receives exactly one line per inbound /api/tracker request:
\* a request answered 201, 200, 400 or 429 that leaves the log short of
\* max_log_lines has made it grow by exactly one line, whatever the endpoint.
C22_OneLinePerRequest ==
    [][(/\ last'.status \in {200, 201, 400, 429}
        /\ LogLength(logFile') < config.max_log_lines)
       => LogLength(logFile') = LogLength(logFile) + 1]_vars

----------------------------------------------------------------------------
(* The event types stored by the ingestion routes, under SpecRoutes *)

\* the elements of the lists posted to /events
BatchElements ==
    UNION {{b.events.items[i] : i \in 1..Len(b.events.items)} : b \in BatchBodies \ {None}}

\* the event types the clients supply, to /event or in an element posted to /events
SuppliedEventTypes ==
    {Get(b.eventType) : b \in (EventBodies \ {None}) \cup BatchElements} \ {None}

\* C23: event_type is mandatory for every persisted event: after any sequence of
\* requests to POST /event and POST /events, every record of the events collection
\* has a non-empty event_type that a client supplied (an event submitted without
\* one is not stored).
C23_StoredEventTypeSupplied ==
    \A i \in 1..Len(Load(eventsFile)) :
        /\ Truthy(Load(eventsFile)[i].event_type)
        /\ Load(eventsFile)[i].event_type \in SuppliedEventTypes

----------------------------------------------------------------------------
(* A client calling the rate limiter and counting the refusals it gets *)

\* the greatest number of refusals the client counts
MaxDenied == 3

\* the process that counts, and the address it calls from
Client == CHOOSE p \in Procs : \A q \in Procs : p <= q
ClientAddr == Ipv4Addr

InitClients ==
    /\ now = 0
    /\ config = DefaultConfig
    /\ requests = <<>>
    /\ admitted = [k \in Identifiers |-> <<>>]
    /\ visitsFile = AbsentFile
    /\ eventsFile = AbsentFile
    /\ logFile = AbsentFile
    /\ logged = <<>>
    /\ last = [op |-> "init"]
    /\ built = <<>>
    /\ issued = <<>>
    /\ pc = Idle
    /\ local = [NoLocals EXCEPT ![Client] = [op |-> "rate_limit_check", denied |-> 0]]

\* rate_limit_check(ip_address) by the client, who counts the calls that returned False
ClientCheck ==
    /\ LET r == is_allowed(requests, ClientAddr, now)
       IN /\ r.allowed \/ local[Client].denied < MaxDenied
          /\ requests' = r.requests
          /\ admitted' = Admit(admitted, ClientAddr, now, r.allowed)
          /\ local' = [local EXCEPT ![Client].denied = IF r.allowed THEN @ ELSE @ + 1]
          /\ last' = [op |-> "is_allowed", identifier |-> ClientAddr,
                      allowed |-> r.allowed]
    /\ UNCHANGED <<now, config, visitsFile, eventsFile, logFile, logged, built, issued,
                   pc>>

\* the client's calls, the clock, and the calls made from another address
NextClients ==
    \/ TickLimiter
    \/ ClientCheck
    \/ RateLimitCheck(OtherAddr)

SpecClients == InitClients /\ [][NextClients]_vars

\* C24: rate-limit denial is never permanent: an is_allowed call made more than
\* time_window after the oldest timestamp recorded for its key returns True, however
\* many calls of the key were denied before it.
C24_AllowedOnceOldestExpired ==
    [][(/\ last'.op = "is_allowed"
        /\ WindowOf(requests, last'.identifier) # <<>>
        /\ now - Head(WindowOf(requests, last'.identifier)) > time_window)
       => last'.allowed]_vars

\* the client filled its window, was then refused MaxDenied times, and its call made
\* more than time_window after its oldest admission, with a later admission still
\* inside the window, has just returned True
C24_Witness ==
    /\ last.op = "is_allowed"
    /\ last.allowed
    /\ last.identifier = ClientAddr
    /\ local[Client].denied = MaxDenied
    /\ LET adm == admitted[ClientAddr]
       IN /\ Len(adm) = max_requests + 1
          /\ adm[Len(adm)] = now
          /\ adm[1] + time_window < now
          /\ adm[max_requests] > now - time_window

====
